---- MODULE Spec2Model ----
(***************************************************************************)
(* Model of src/src/cert_context.rs: CertContext, a safe wrapper around a  *)
(* reference counted native certificate record (PCCERT_CONTEXT), its       *)
(* property accessors and the two builders that borrow it.                 *)
(*                                                                         *)
(* The native layer (crypt32) is the environment.  Each native call the    *)
(* wrapper makes is an operator named after the call; its outcome is       *)
(* either a function of the native state the call reads, or an input the   *)
(* action draws with \E where the platform decides (a store removal, a     *)
(* property write, a validity code, a reported length).                    *)
(***************************************************************************)
EXTENDS Integers, Sequences, FiniteSets, TLC

\* ------------------------------------------------------------------ bounds
\* Number of CertContext values (handles) ever created in one run.
MaxHandles == 2
\* Number of AcquirePrivateKeyOptions / SetKeyProvInfo builders ever created.
MaxBuilders == 1

\* ------------------------------------------------------- program constants
\* winapi::DWORD is 32 bits wide.  A DWORD used as a flag word is the set of
\* its bits that are set; DWORD(n) is the flag word of the number n < 2^31.
DWORD_BITS == 32
BitIndex == 0..(DWORD_BITS - 1)
DWORD(n) == { i \in 0..(DWORD_BITS - 2) : (n \div (2 ^ i)) % 2 = 1 }

CRYPT_ACQUIRE_COMPARE_KEY_FLAG == DWORD(4)
CRYPT_ACQUIRE_SILENT_FLAG == DWORD(64)
CRYPT_ACQUIRE_ALLOW_NCRYPT_KEY_FLAG == DWORD(65536)

Handles == 1..MaxHandles
\* A native record is named after the handle whose decode created it.
Records == 1..MaxHandles
Builders == 1..MaxBuilders
NULL == 0

\* ------------------------------------------------------------ input sets
\* A byte string the native decoder accepts starts with the ASN.1 SEQUENCE
\* tag; the empty string and any other leading tag are rejected.
IsValidCert(d) == Len(d) > 0 /\ d[1] = 48

\* DER inputs handed to new(): two certificates (their lengths leave 1 and 2
\* bytes in the last base64 group), and two rejected encodings.
DerInputs == { <<48, 130>>, <<48, 130, 1, 255>>, <<>>, <<255>> }

\* ------------------------------------------------------------------ state
VARIABLES
    handles,   \* CertContext values: lifecycle state and the pointer held
    records,   \* native certificate records: reference count, DER, properties
    hist,      \* per handle history of what was done with it (observer)
    acq,       \* AcquirePrivateKeyOptions builders
    kpi,       \* SetKeyProvInfo builders
    last,      \* the most recent call: operation, inputs, native calls, result
    rd         \* a friendly_name() call another thread is in the middle of

vars == <<handles, records, hist, acq, kpi, last, rd>>

\* A property that is not set on a record / a property blob of cb bytes
\* holding the 16-bit units `data`.
NoProp == [present |-> FALSE, cb |-> 0, data |-> <<>>]
Blob(cb, data) == [present |-> TRUE, cb |-> cb, data |-> data]

\* The string / byte properties the accessors read, by CERT_*_PROP_ID name.
PropIds == {"FRIENDLY_NAME", "SIGN_HASH_CNG_ALG", "SIGNATURE_HASH", "DESCRIPTION"}
NoProps == [p \in PropIds |-> NoProp]

\* The CERT_KEY_PROV_INFO_PROP_ID property: unset, or the structure written.
NoKeyProv == [present |-> FALSE]

NoRecord == [alloc |-> FALSE, refs |-> 0, encoded |-> <<>>,
             props |-> NoProps, keyprov |-> NoKeyProv]
NoHandle == [state |-> "unused", ptr |-> NULL]
\* family: the decoded handle this one was cloned from (itself for a decoded
\* handle); nameSet/name/nameBy: on a family's first handle, the friendly
\* name last written with success through any handle of the family.
NoHist == [released |-> 0, deletes |-> 0, opsAfterDelete |-> 0,
           family |-> 0, decodedFrom |-> <<>>, srcKind |-> "none", src |-> <<>>,
           nameSet |-> FALSE, name |-> <<>>, nameBy |-> 0]

Min(S) == CHOOSE x \in S : \A y \in S : x <= y

\* The next CertContext value / native record to come into existence.
UnusedHandles == { h \in Handles : handles[h].state = "unused" }
FreshRecords(recs) == { r \in Records : ~recs[r].alloc }

\* A CertContext the program still owns: not yet dropped, not moved into
\* delete().
Usable(h) == handles[h].state = "live"

\* A builder holds `cert: &'a CertContext`; while it lives the handle cannot
\* be moved (dropped or deleted).
Borrowed(h) ==
    \/ \E b \in Builders : acq[b].state = "live" /\ acq[b].cert = h
    \/ \E b \in Builders : kpi[b].state = "live" /\ kpi[b].cert = h

LiveOn(r) == { h \in Handles : handles[h].state = "live" /\ handles[h].ptr = r }

\* Observer: an operation is issued on handle h.
Touch(hs, h) ==
    [hs EXCEPT ![h].opsAfterDelete = @ + (IF hs[h].deletes > 0 THEN 1 ELSE 0)]

\* Observer: one native call as an operation made it.  `null` and `cap`
\* are the buffer passed (a null pointer, or its capacity in bytes), `len`
\* the length the call reported back, `ok` whether it succeeded.
ReadCall(fn, isNull, cap, ok, len) ==
    [fn |-> fn, null |-> isNull, cap |-> cap, len |-> len, ok |-> ok]

NativeCall(fn, ok) == ReadCall(fn, FALSE, 0, ok, 0)

\* The platform lets both calls of a two-call read through, fails the
\* first, or fails the second.
ReadOutcomes == { [f1 |-> FALSE, f2 |-> FALSE], [f1 |-> TRUE, f2 |-> FALSE],
                  [f1 |-> FALSE, f2 |-> TRUE] }

\* ---------------------------------------------------------- native calls
\* CertCreateCertificateContext: null for a rejected encoding, otherwise a
\* fresh record holding its own copy of the bytes, with one reference.
CertCreateCertificateContext(recs, data) ==
    IF IsValidCert(data) /\ FreshRecords(recs) # {}
    THEN LET r == Min(FreshRecords(recs))
         IN [ret |-> r,
             recs |-> [recs EXCEPT ![r] = [alloc |-> TRUE, refs |-> 1,
                                           encoded |-> data,
                                           props |-> NoProps,
                                           keyprov |-> NoKeyProv]]]
    ELSE [ret |-> NULL, recs |-> recs]

\* CertDuplicateCertificateContext: one more reference, the same pointer.
CertDuplicateCertificateContext(recs, r) ==
    [ret |-> r, recs |-> [recs EXCEPT ![r].refs = @ + 1]]

\* CertFreeCertificateContext: one reference less.
CertFreeCertificateContext(recs, r) == [recs EXCEPT ![r].refs = @ - 1]

\* CertDeleteCertificateFromStore: frees the context it is given whether or
\* not the removal succeeds; `ret` is the platform's answer.
CertDeleteCertificateFromStore(recs, r, ret) ==
    [ret |-> ret, recs |-> CertFreeCertificateContext(recs, r)]

\* ------------------------------------------------ PEM-style text (base64)
\* Text is a sequence of character codes; the two marker lines
\* "-----BEGIN CERTIFICATE-----" and "-----END CERTIFICATE-----" are one
\* code each.
PemHeader == << -1 >>
PemFooter == << -2 >>
PadChar == 61

\* The base64 alphabet: A-Z a-z 0-9 + /
B64Char(v) ==
    IF v < 26 THEN 65 + v
    ELSE IF v < 52 THEN 97 + (v - 26)
    ELSE IF v < 62 THEN 48 + (v - 52)
    ELSE IF v = 62 THEN 43 ELSE 47

\* The value of a base64 character, -1 for any other character.
B64Val(c) ==
    IF c \in 65..90 THEN c - 65
    ELSE IF c \in 97..122 THEN c - 97 + 26
    ELSE IF c \in 48..57 THEN c - 48 + 52
    ELSE IF c = 43 THEN 62
    ELSE IF c = 47 THEN 63 ELSE -1

Drop3(s) == SubSeq(s, 4, Len(s))
Drop4(s) == SubSeq(s, 5, Len(s))

RECURSIVE Base64Encode(_)
Base64Encode(s) ==
    IF Len(s) = 0 THEN <<>>
    ELSE IF Len(s) = 1 THEN
        LET n == s[1] * 16
        IN << B64Char(n \div 64), B64Char(n % 64), PadChar, PadChar >>
    ELSE IF Len(s) = 2 THEN
        LET n == (s[1] * 256 + s[2]) * 4
        IN << B64Char(n \div 4096), B64Char((n \div 64) % 64),
              B64Char(n % 64), PadChar >>
    ELSE
        LET n == s[1] * 65536 + s[2] * 256 + s[3]
        IN << B64Char(n \div 262144), B64Char((n \div 4096) % 64),
              B64Char((n \div 64) % 64), B64Char(n % 64) >>
           \o Base64Encode(Drop3(s))

BadText == [ok |-> FALSE, data |-> <<>>]

RECURSIVE Base64Decode(_)
Base64Decode(t) ==
    IF Len(t) = 0 THEN [ok |-> TRUE, data |-> <<>>]
    ELSE IF Len(t) < 4 THEN BadText
    ELSE
        LET v1 == B64Val(t[1])
            v2 == B64Val(t[2])
            v3 == B64Val(t[3])
            v4 == B64Val(t[4])
        IN IF v1 < 0 \/ v2 < 0 THEN BadText
           ELSE IF t[3] = PadChar /\ t[4] = PadChar THEN
               IF Len(t) # 4 THEN BadText
               ELSE [ok |-> TRUE, data |-> << (v1 * 64 + v2) \div 16 >>]
           ELSE IF t[4] = PadChar THEN
               IF Len(t) # 4 \/ v3 < 0 THEN BadText
               ELSE LET n == (v1 * 4096 + v2 * 64 + v3) \div 4
                    IN [ok |-> TRUE, data |-> << n \div 256, n % 256 >>]
           ELSE IF v3 < 0 \/ v4 < 0 THEN BadText
           ELSE
               LET n == v1 * 262144 + v2 * 4096 + v3 * 64 + v4
                   rest == Base64Decode(Drop4(t))
               IN IF ~rest.ok THEN BadText
                  ELSE [ok |-> TRUE,
                        data |-> << n \div 65536, (n \div 256) % 256, n % 256 >>
                                 \o rest.data]

\* The PEM-style text of a byte string.
PemOf(d) == PemHeader \o Base64Encode(d) \o PemFooter

\* Texts handed to from_pem(): the text of every DER input, a base64 block
\* without the marker lines, and a block with characters outside the
\* alphabet.
PemInputs == { PemOf(d) : d \in DerInputs }
             \cup { <<77, 73, 73, 61>>, PemHeader \o <<42, 42, 42, 42>> \o PemFooter }

Zeros(n) == [i \in 1..n |-> 0]

\* buf with its first Len(data) elements overwritten by data.
Overwrite(buf, data) ==
    [i \in 1..Len(buf) |-> IF i <= Len(data) THEN data[i] ELSE buf[i]]

\* CryptStringToBinaryA(.., CRYPT_STRING_BASE64HEADER, pbBinary, &len, ..):
\* with a null pbBinary it reports the decoded length; otherwise it fills
\* pbBinary, failing when the buffer is too small.  It fails for text that
\* is not a base64 block between the two marker lines, and when the
\* platform fails the call (`fail`).
CryptStringToBinaryA(text, isNull, buf, fail) ==
    LET framed == Len(text) >= 2 /\ text[1] = PemHeader[1]
                  /\ text[Len(text)] = PemFooter[1]
        dec == IF framed THEN Base64Decode(SubSeq(text, 2, Len(text) - 1))
               ELSE BadText
    IN IF fail \/ ~dec.ok THEN [ok |-> FALSE, len |-> 0, buf |-> buf]
       ELSE IF isNull THEN [ok |-> TRUE, len |-> Len(dec.data), buf |-> buf]
       ELSE IF Len(buf) < Len(dec.data)
            THEN [ok |-> FALSE, len |-> Len(dec.data), buf |-> buf]
       ELSE [ok |-> TRUE, len |-> Len(dec.data), buf |-> Overwrite(buf, dec.data)]

\* --------------------------------------------------------- CertContext
\* CertContext::new
new(recs, data) ==
    LET c == CertCreateCertificateContext(recs, data)
    IN [kind |-> IF c.ret = NULL THEN "err" ELSE "ok",
        ptr |-> c.ret, recs |-> c.recs, data |-> data,
        calls |-> << NativeCall("CertCreateCertificateContext", c.ret # NULL) >>]

\* from_pem with a decode buffer as long as the text instead of the length
\* the size query reported.
from_pem_text_sized_buffer(recs, pem, f1, f2) ==
    LET q == CryptStringToBinaryA(pem, TRUE, <<>>, f1)
        c1 == ReadCall("CryptStringToBinaryA", TRUE, 0, q.ok, q.len)
    IN IF ~q.ok
       THEN [kind |-> "err", ptr |-> NULL, recs |-> recs, data |-> <<>>,
             calls |-> <<c1>>]
       ELSE LET buf == Zeros(Len(pem))
                f == CryptStringToBinaryA(pem, FALSE, buf, f2)
                c2 == ReadCall("CryptStringToBinaryA", FALSE, Len(buf), f.ok, f.len)
            IN IF ~f.ok
               THEN [kind |-> "err", ptr |-> NULL, recs |-> recs,
                     data |-> <<>>, calls |-> <<c1, c2>>]
               ELSE LET n == new(recs, f.buf)
                    IN [kind |-> n.kind, ptr |-> n.ptr, recs |-> n.recs,
                        data |-> n.data, calls |-> <<c1, c2>> \o n.calls]

\* CertContext::from_pem; `calls` lists the native calls made, `f1` and
\* `f2` are the platform failing the first / second decode call.
from_pem(recs, pem, f1, f2) ==
    LET q == CryptStringToBinaryA(pem, TRUE, <<>>, f1)
        c1 == ReadCall("CryptStringToBinaryA", TRUE, 0, q.ok, q.len)
    IN IF ~q.ok
       THEN [kind |-> "err", ptr |-> NULL, recs |-> recs, data |-> <<>>,
             calls |-> <<c1>>]
       ELSE LET buf == Zeros(q.len)
                f == CryptStringToBinaryA(pem, FALSE, buf, f2)
                c2 == ReadCall("CryptStringToBinaryA", FALSE, Len(buf), f.ok, f.len)
            IN IF ~f.ok
               THEN [kind |-> "err", ptr |-> NULL, recs |-> recs,
                     data |-> <<>>, calls |-> <<c1, c2>>]
               ELSE LET n == new(recs, f.buf)
                    IN [kind |-> n.kind, ptr |-> n.ptr, recs |-> n.recs,
                        data |-> n.data, calls |-> <<c1, c2>> \o n.calls]

\* A clone that copies the raw pointer without taking a reference.
clone_without_duplicate(recs, r) == [ret |-> r, recs |-> recs]

\* A clone that makes its own copy of the native record.
clone_deep_copy(recs, r) ==
    LET r2 == Min(FreshRecords(recs))
    IN [ret |-> r2, recs |-> [recs EXCEPT ![r2] = [recs[r] EXCEPT !.refs = 1]]]

\* Clone::clone: the new CertContext wraps what the duplicate call returns.
clone(recs, r) == CertDuplicateCertificateContext(recs, r)

\* Drop::drop
drop(recs, r) == CertFreeCertificateContext(recs, r)

\* mem::forget moved into the success branch of delete().
mem_forget_on_success(ret) == ret

\* delete(): `mem::forget(self)` runs before the result is inspected, on
\* both outcomes of the native call.
mem_forget(ret) == TRUE

\* delete(&self): the caller keeps the handle.
delete_borrows_self(hs, h) == hs

\* delete(self) takes the handle by value: the caller's handle is moved.
delete_self(hs, h) == [hs EXCEPT ![h].state = "deleted"]

\* ------------------------------------------------------------- lifecycle
\* A decode that succeeded yields the next CertContext value.
Created(res, kindOfSrc, input) ==
    LET h == Min(UnusedHandles)
    IN IF res.kind = "ok"
       THEN /\ handles' = [handles EXCEPT ![h] = [state |-> "live", ptr |-> res.ptr]]
            /\ records' = res.recs
            /\ hist' = [hist EXCEPT ![h] = [NoHist EXCEPT !.family = h,
                                                          !.decodedFrom = res.data,
                                                          !.srcKind = kindOfSrc,
                                                          !.src = input]]
       ELSE UNCHANGED <<handles, records, hist>>

\* CertContext::new(data) for an encoding of the set `inputs`
New(inputs) ==
    \E d \in inputs :
        /\ UnusedHandles # {}
        /\ LET res == new(records, d)
           IN /\ Created(res, "der", d)
              /\ last' = [op |-> "new", input |-> d, kind |-> res.kind,
                          calls |-> res.calls,
                          h |-> IF res.kind = "ok" THEN Min(UnusedHandles) ELSE 0]
        /\ UNCHANGED <<acq, kpi, rd>>

\* CertContext::from_pem(pem) for a text of the set `inputs`
FromPem(inputs) ==
    \E t \in inputs, o \in ReadOutcomes :
        /\ UnusedHandles # {}
        /\ LET res == from_pem(records, t, o.f1, o.f2)
           IN /\ Created(res, "pem", t)
              /\ last' = [op |-> "from_pem", input |-> t, kind |-> res.kind,
                          calls |-> res.calls,
                          platformFailed |-> o.f1 \/ o.f2,
                          h |-> IF res.kind = "ok" THEN Min(UnusedHandles) ELSE 0]
        /\ UNCHANGED <<acq, kpi, rd>>

\* h.clone()
Clone ==
    \E h \in Handles :
        /\ Usable(h)
        /\ UnusedHandles # {}
        /\ LET hn == Min(UnusedHandles)
               c == clone(records, handles[h].ptr)
           IN /\ handles' = [handles EXCEPT ![hn] = [state |-> "live", ptr |-> c.ret]]
              /\ records' = c.recs
              /\ hist' = [Touch(hist, h) EXCEPT ![hn] =
                              [NoHist EXCEPT !.family = hist[h].family,
                                             !.decodedFrom = hist[h].decodedFrom,
                                             !.srcKind = hist[h].srcKind,
                                             !.src = hist[h].src]]
              /\ last' = [op |-> "clone", h |-> h, hn |-> hn]
        /\ UNCHANGED <<acq, kpi, rd>>

\* h goes out of scope
Drop ==
    \E h \in Handles :
        /\ Usable(h)
        /\ ~Borrowed(h)
        /\ handles' = [handles EXCEPT ![h].state = "dropped"]
        /\ records' = drop(records, handles[h].ptr)
        /\ hist' = [Touch(hist, h) EXCEPT ![h].released = @ + 1]
        /\ last' = [op |-> "drop", h |-> h]
        /\ UNCHANGED <<acq, kpi, rd>>

\* h.delete(): the native removal, then mem::forget(self); were self not
\* forgotten its destructor would run when delete returns.
Delete ==
    \E h \in Handles, ret \in BOOLEAN :
        /\ Usable(h)
        /\ ~Borrowed(h)
        /\ LET r == handles[h].ptr
               d == CertDeleteCertificateFromStore(records, r, ret)
               h1 == [Touch(hist, h) EXCEPT ![h].released = @ + 1,
                                            ![h].deletes = @ + 1]
           IN /\ handles' = delete_self(handles, h)
              /\ IF mem_forget(d.ret)
                 THEN /\ records' = d.recs
                      /\ hist' = h1
                 ELSE /\ records' = drop(d.recs, r)
                      /\ hist' = [Touch(h1, h) EXCEPT ![h].released = @ + 1]
              /\ last' = [op |-> "delete", h |-> h, kind |-> IF d.ret THEN "ok" ELSE "err",
                          refsBefore |-> records[r].refs,
                          calls |-> << NativeCall("CertDeleteCertificateFromStore",
                                                  d.ret) >>]
        /\ UNCHANGED <<acq, kpi, rd>>

\* ------------------------------------------------------ text and UTF-16
\* Text is a sequence of Unicode scalar values.  The names written by
\* set_friendly_name: empty, one BMP character, a supplementary character
\* followed by a BMP one, and a lone NUL character.
NameInputs == { <<>>, <<65>>, <<128512, 66>>, <<0>> }

\* str::encode_utf16
RECURSIVE encode_utf16(_)
encode_utf16(t) ==
    IF Len(t) = 0 THEN <<>>
    ELSE LET c == t[1]
             u == IF c < 65536 THEN <<c>>
                  ELSE << 55296 + ((c - 65536) \div 1024),
                          56320 + ((c - 65536) % 1024) >>
         IN u \o encode_utf16(Tail(t))

IsHighSurrogate(u) == u \in 55296..56319
IsLowSurrogate(u) == u \in 56320..57343

\* OsString::from_wide(units).into_string(): the text of well formed UTF-16,
\* a failure when a surrogate is unpaired.
RECURSIVE into_string(_)
into_string(w) ==
    IF Len(w) = 0 THEN [ok |-> TRUE, text |-> <<>>]
    ELSE IF IsHighSurrogate(w[1]) THEN
        IF Len(w) >= 2 /\ IsLowSurrogate(w[2])
        THEN LET rest == into_string(SubSeq(w, 3, Len(w)))
                 c == 65536 + (w[1] - 55296) * 1024 + (w[2] - 56320)
             IN [ok |-> rest.ok, text |-> <<c>> \o rest.text]
        ELSE [ok |-> FALSE, text |-> <<>>]
    ELSE IF IsLowSurrogate(w[1]) THEN [ok |-> FALSE, text |-> <<>>]
    ELSE LET rest == into_string(Tail(w))
         IN [ok |-> rest.ok, text |-> <<w[1]>> \o rest.text]

\* -------------------------------------------------- native property calls
\* CertGetCertificateContextProperty(ctx, prop, pvData, &len).  It fails
\* when the property is not set, when the platform fails the call (`fail`),
\* and when a buffer of `len` bytes is too small; with a null pvData it
\* reports the stored byte length; otherwise it copies the stored data.
CertGetCertificateContextProperty(recs, r, prop, isNull, len, fail) ==
    LET p == recs[r].props[prop]
    IN IF fail \/ ~p.present THEN [ok |-> FALSE, len |-> len, data |-> <<>>]
       ELSE IF isNull THEN [ok |-> TRUE, len |-> p.cb, data |-> <<>>]
       ELSE IF len < p.cb THEN [ok |-> FALSE, len |-> p.cb, data |-> <<>>]
       ELSE [ok |-> TRUE, len |-> p.cb, data |-> p.data]

\* CertSetCertificateContextProperty(ctx, prop, 0, &CRYPT_DATA_BLOB): when
\* the platform accepts the write (`ret`) the record keeps a copy of the
\* cbData bytes at pbData, here the first cbData / 2 units.
CertSetCertificateContextProperty(recs, r, prop, cbData, pbData, ret) ==
    IF ret
    THEN [ret |-> TRUE,
          recs |-> [recs EXCEPT ![r].props[prop] =
                        Blob(cbData, SubSeq(pbData, 1, cbData \div 2))]]
    ELSE [ret |-> FALSE, recs |-> recs]

\* -------------------------------------------------- property accessors
\* The second half of get_string, from the byte length `len` the size
\* query reported: the buffer of len / 2 units, the fill read (`f2`: the
\* platform fails it), the last unit chopped off, the conversion.  `panic`
\* tells a result of kind "panic" apart: "slice" for `buf[..amt - 1]` with
\* amt = 0 (the subtraction underflows, or wraps to an end out of range),
\* "unwrap" for `.unwrap()` of a failed conversion.
get_string_fill(recs, r, prop, len, f2) ==
    LET amt == len \div 2
        buf == Zeros(amt)
        f == CertGetCertificateContextProperty(recs, r, prop, FALSE, len, f2)
        c2 == ReadCall("CertGetCertificateContextProperty", FALSE, amt * 2,
                       f.ok, f.len)
        out == [kind |-> "err", val |-> <<>>, calls |-> <<c2>>, panic |-> "none"]
    IN IF ~f.ok THEN out
       ELSE IF amt = 0
       THEN [out EXCEPT !.kind = "panic", !.panic = "slice"]
       ELSE LET filled == Overwrite(buf, f.data)
                s == into_string(SubSeq(filled, 1, amt - 1))
            IN IF s.ok
               THEN [out EXCEPT !.kind = "ok", !.val = s.text]
               ELSE [out EXCEPT !.kind = "panic", !.panic = "unwrap"]

\* CertContext::get_string.  `calls` lists the native reads made, `f1` and
\* `f2` are the platform failing the first / second read.
get_string(recs, r, prop, f1, f2) ==
    LET q == CertGetCertificateContextProperty(recs, r, prop, TRUE, 0, f1)
        c1 == ReadCall("CertGetCertificateContextProperty", TRUE, 0, q.ok, q.len)
    IN IF ~q.ok
       THEN [kind |-> "err", val |-> <<>>, calls |-> <<c1>>, panic |-> "none"]
       ELSE LET res == get_string_fill(recs, r, prop, q.len, f2)
            IN [res EXCEPT !.calls = <<c1>> \o @]

\* CertContext::get_bytes
get_bytes(recs, r, prop, f1, f2) ==
    LET q == CertGetCertificateContextProperty(recs, r, prop, TRUE, 0, f1)
        c1 == ReadCall("CertGetCertificateContextProperty", TRUE, 0, q.ok, q.len)
    IN IF ~q.ok
       THEN [kind |-> "err", val |-> <<>>, calls |-> <<c1>>, panic |-> "none"]
       ELSE LET buf == Zeros(q.len)
                f == CertGetCertificateContextProperty(recs, r, prop, FALSE,
                                                       q.len, f2)
                c2 == ReadCall("CertGetCertificateContextProperty", FALSE,
                               Len(buf), f.ok, f.len)
            IN IF ~f.ok
               THEN [kind |-> "err", val |-> <<>>, calls |-> <<c1, c2>>,
                     panic |-> "none"]
               ELSE [kind |-> "ok", val |-> Overwrite(buf, f.data),
                     calls |-> <<c1, c2>>, panic |-> "none"]

\* set_string without the terminator appended to the units.
set_string_without_terminator(recs, r, prop, s, ret) ==
    LET data == encode_utf16(s)
        cbData == Len(data) * 2
        w == CertSetCertificateContextProperty(recs, r, prop, cbData, data, ret)
    IN [kind |-> IF w.ret THEN "ok" ELSE "err", recs |-> w.recs,
        calls |-> << NativeCall("CertSetCertificateContextProperty", w.ret) >>]

\* CertContext::set_string
set_string(recs, r, prop, s, ret) ==
    LET data == encode_utf16(s) \o <<0>>
        \* (data.len() * 2) as DWORD; the lengths here are far below 2^32
        cbData == Len(data) * 2
        w == CertSetCertificateContextProperty(recs, r, prop, cbData, data, ret)
    IN [kind |-> IF w.ret THEN "ok" ELSE "err", recs |-> w.recs,
        calls |-> << NativeCall("CertSetCertificateContextProperty", w.ret) >>]

\* CertContext::sign_hash_algorithms
sign_hash_algorithms(recs, r, f1, f2) ==
    get_string(recs, r, "SIGN_HASH_CNG_ALG", f1, f2)

\* CertContext::signature_hash
signature_hash(recs, r, f1, f2) == get_bytes(recs, r, "SIGNATURE_HASH", f1, f2)

\* CertContext::description
description(recs, r, f1, f2) == get_bytes(recs, r, "DESCRIPTION", f1, f2)

\* CertContext::friendly_name
friendly_name(recs, r, f1, f2) == get_string(recs, r, "FRIENDLY_NAME", f1, f2)

\* set_friendly_name that reports success whatever the native write said.
set_friendly_name_swallows_failure(recs, r, name, ret) ==
    [set_string(recs, r, "FRIENDLY_NAME", name, ret) EXCEPT !.kind = "ok"]

\* CertContext::set_friendly_name
set_friendly_name(recs, r, name, ret) == set_string(recs, r, "FRIENDLY_NAME", name, ret)

\* CertContext::get_encoded_bytes
get_encoded_bytes(recs, r) == recs[r].encoded

\* Equality by pointer identity.
eq_by_pointer(recs, r1, r2) == r1 = r2

\* PartialEq::eq
eq(recs, r1, r2) == get_encoded_bytes(recs, r1) = get_encoded_bytes(recs, r2)

\* Properties are kept by the platform on the native context, which the
\* certificate store and every other holder of the context share: a
\* property can hold what someone else wrote.  Wide-string properties: an
\* empty blob, a one-byte blob, an unpaired surrogate before the
\* terminator, the text "R" with its terminator.  Byte properties: an empty
\* blob and two bytes.
StoreBlobs(prop) ==
    IF prop \in {"FRIENDLY_NAME", "SIGN_HASH_CNG_ALG"}
    THEN { Blob(0, <<>>), Blob(1, <<>>), Blob(4, <<55296, 0>>),
           Blob(4, <<82, 0>>) }
    ELSE { Blob(0, <<>>), Blob(2, <<1, 2>>) }

\* Another holder of the native context of the handle created first writes
\* one of its properties of the set `props`.
StoreWrites(props) ==
    \E prop \in props :
      \E blob \in StoreBlobs(prop) :
        /\ Usable(1)
        /\ records' = [records EXCEPT ![handles[1].ptr].props[prop] = blob]
        /\ last' = [op |-> "store_writes", h |-> 1, prop |-> prop, blob |-> blob]
        /\ UNCHANGED <<handles, hist, acq, kpi, rd>>

\* One of the four property getters called on h; `stored` observes the
\* property as the record holds it when the call is made.
Getter(op, prop, h, res, o) ==
    /\ last' = [op |-> op, h |-> h, kind |-> res.kind,
                val |-> res.val, calls |-> res.calls, panic |-> res.panic,
                stored |-> records[handles[h].ptr].props[prop],
                platformFailed |-> o.f1 \/ o.f2]
    /\ hist' = Touch(hist, h)
    /\ UNCHANGED <<handles, records, acq, kpi, rd>>

\* h.friendly_name()
FriendlyName ==
    \E h \in Handles, o \in ReadOutcomes :
        /\ Usable(h)
        /\ Getter("friendly_name", "FRIENDLY_NAME", h,
                  friendly_name(records, handles[h].ptr, o.f1, o.f2), o)

\* h.sign_hash_algorithms()
SignHashAlgorithms ==
    \E h \in Handles, o \in ReadOutcomes :
        /\ Usable(h)
        /\ Getter("sign_hash_algorithms", "SIGN_HASH_CNG_ALG", h,
                  sign_hash_algorithms(records, handles[h].ptr, o.f1, o.f2), o)

\* h.signature_hash()
SignatureHash ==
    \E h \in Handles, o \in ReadOutcomes :
        /\ Usable(h)
        /\ Getter("signature_hash", "SIGNATURE_HASH", h,
                  signature_hash(records, handles[h].ptr, o.f1, o.f2), o)

\* h.description()
Description ==
    \E h \in Handles, o \in ReadOutcomes :
        /\ Usable(h)
        /\ Getter("description", "DESCRIPTION", h,
                  description(records, handles[h].ptr, o.f1, o.f2), o)

\* CertContext is Sync and Send and its methods take &self: while one
\* thread is inside friendly_name() on the handle created first, between
\* the two native reads of get_string, another thread can call
\* set_friendly_name through a clone.  Each native call is atomic.  `len` is
\* the length the size query reported; `seen` observes the names the
\* property held at some moment since the read began.
NoRead == [pc |-> "idle", h |-> 0, len |-> 0, c1 |-> <<>>, seen |-> {}]

\* Thread A enters h.friendly_name(): the size query of get_string.
ReadBegin ==
    \E f1 \in BOOLEAN :
        /\ rd.pc = "idle"
        /\ Usable(1)
        /\ LET r == handles[1].ptr
               q == CertGetCertificateContextProperty(records, r,
                        "FRIENDLY_NAME", TRUE, 0, f1)
               c1 == ReadCall("CertGetCertificateContextProperty", TRUE, 0,
                              q.ok, q.len)
               \* the name the property holds now
               units == records[r].props["FRIENDLY_NAME"].data
               held == into_string(SubSeq(units, 1, Len(units) - 1)).text
           IN IF ~q.ok
              THEN /\ last' = [op |-> "friendly_name_mt", h |-> 1,
                               kind |-> "err", val |-> <<>>, calls |-> <<c1>>,
                               panic |-> "none", seen |-> {}]
                   /\ rd' = rd
              ELSE /\ last' = [op |-> "friendly_name_begin", h |-> 1]
                   /\ rd' = [pc |-> "sized", h |-> 1, len |-> q.len,
                             c1 |-> <<c1>>,
                             seen |-> {held}]
        /\ hist' = Touch(hist, 1)
        /\ UNCHANGED <<handles, records, acq, kpi>>

\* Thread A goes on: the fill read with the length it was told, the
\* chopping of the last unit and the conversion.
ReadEnd ==
    \E f2 \in BOOLEAN :
        /\ rd.pc = "sized"
        /\ LET res == get_string_fill(records, handles[rd.h].ptr,
                                      "FRIENDLY_NAME", rd.len, f2)
           IN last' = [op |-> "friendly_name_mt", h |-> rd.h,
                       kind |-> res.kind, val |-> res.val,
                       calls |-> rd.c1 \o res.calls, panic |-> res.panic,
                       seen |-> rd.seen]
        /\ rd' = NoRead
        /\ UNCHANGED <<handles, records, hist, acq, kpi>>

\* Thread B calls h.set_friendly_name(name) through a clone of the handle
\* thread A reads, before, during or after the read.
SetFriendlyNameMt ==
    \E h \in Handles \ {1}, name \in NameInputs, ret \in BOOLEAN :
        /\ Usable(h) /\ Usable(1)
        /\ handles[h].ptr = handles[1].ptr
        /\ LET res == set_friendly_name(records, handles[h].ptr, name, ret)
               fam == hist[h].family
           IN /\ records' = res.recs
              /\ hist' = IF res.kind = "ok"
                         THEN [Touch(hist, h) EXCEPT ![fam].nameSet = TRUE,
                                                     ![fam].name = name,
                                                     ![fam].nameBy = h]
                         ELSE Touch(hist, h)
              /\ rd' = IF res.kind = "ok" /\ rd.pc = "sized"
                       THEN [rd EXCEPT !.seen = @ \cup {name}]
                       ELSE rd
              /\ last' = [op |-> "set_friendly_name", h |-> h, kind |-> res.kind,
                          input |-> name, calls |-> res.calls]
        /\ UNCHANGED <<handles, acq, kpi>>

\* h.set_friendly_name(name) for a name of the set `names`
SetFriendlyName(names) ==
    \E h \in Handles, name \in names, ret \in BOOLEAN :
        /\ Usable(h)
        /\ LET res == set_friendly_name(records, handles[h].ptr, name, ret)
               fam == hist[h].family
           IN /\ records' = res.recs
              /\ hist' = IF res.kind = "ok"
                         THEN [Touch(hist, h) EXCEPT ![fam].nameSet = TRUE,
                                                     ![fam].name = name,
                                                     ![fam].nameBy = h]
                         ELSE Touch(hist, h)
              /\ last' = [op |-> "set_friendly_name", h |-> h, kind |-> res.kind,
                          input |-> name, calls |-> res.calls]
        /\ UNCHANGED <<handles, acq, kpi, rd>>

\* h1 == h2
Eq ==
    \E h1 \in Handles, h2 \in Handles :
        /\ Usable(h1) /\ Usable(h2)
        /\ last' = [op |-> "eq", h |-> h1, h2 |-> h2,
                    val |-> eq(records, handles[h1].ptr, handles[h2].ptr)]
        /\ hist' = Touch(Touch(hist, h1), h2)
        /\ UNCHANGED <<handles, records, acq, kpi, rd>>

\* ------------------------------------------------------------ fingerprint
\* HashAlgorithm(id, digest length)
md5 == [id |-> "CALG_MD5", len |-> 16]
sha1 == [id |-> "CALG_SHA1", len |-> 20]
sha256 == [id |-> "CALG_SHA_256", len |-> 32]
sha384 == [id |-> "CALG_SHA_384", len |-> 48]
sha512 == [id |-> "CALG_SHA_512", len |-> 64]
HashAlgorithms == {md5, sha1, sha256, sha384, sha512}

\* The size of the digest the platform computes for an algorithm id.
NativeDigestLen(id) ==
    CASE id = "CALG_MD5" -> 16
      [] id = "CALG_SHA1" -> 20
      [] id = "CALG_SHA_256" -> 32
      [] id = "CALG_SHA_384" -> 48
      [] id = "CALG_SHA_512" -> 64

RECURSIVE SumSeq(_)
SumSeq(s) == IF Len(s) = 0 THEN 0 ELSE s[1] + 7 * SumSeq(Tail(s))

\* The digest: a function of the algorithm and the bytes hashed alone.
Digest(id, bytes) ==
    [i \in 1..NativeDigestLen(id) |->
        (SumSeq(bytes) + NativeDigestLen(id) * i + Len(bytes)) % 256]

\* The lengths the platform may report back for a buffer of cap bytes.
ReportedLens(cap) == {0, cap \div 2, cap}

\* What the platform does with a hash request: reject it, or compute the
\* digest and report a length.
HashOutcomes(cap) ==
    { [fail |-> TRUE, reported |-> 0] }
    \cup { [fail |-> FALSE, reported |-> n] : n \in ReportedLens(cap) }

\* CryptHashCertificate(0, alg, 0, bytes, n, buf, &len): fails when the
\* platform rejects the request (`fail`) or the buffer is smaller than the
\* digest; otherwise writes `reported` bytes of the digest and reports that
\* length.
CryptHashCertificate(id, bytes, buf, reported, fail) ==
    IF fail \/ Len(buf) < NativeDigestLen(id)
    THEN [ok |-> FALSE, len |-> Len(buf), buf |-> buf]
    ELSE [ok |-> TRUE, len |-> reported,
          buf |-> Overwrite(buf, SubSeq(Digest(id, bytes), 1, reported))]

\* fingerprint that cuts the buffer to the length the platform reported.
fingerprint_truncated(recs, r, alg, reported, fail) ==
    LET buf == Zeros(alg.len)
        res == CryptHashCertificate(alg.id, recs[r].encoded, buf, reported, fail)
        c == NativeCall("CryptHashCertificate", res.ok)
    IN IF ~res.ok THEN [kind |-> "err", val |-> <<>>, calls |-> <<c>>]
       ELSE [kind |-> "ok", val |-> SubSeq(res.buf, 1, res.len), calls |-> <<c>>]

\* CertContext::fingerprint
fingerprint(recs, r, alg, reported, fail) ==
    LET buf == Zeros(alg.len)
        res == CryptHashCertificate(alg.id, recs[r].encoded, buf, reported, fail)
        c == NativeCall("CryptHashCertificate", res.ok)
    IN IF ~res.ok THEN [kind |-> "err", val |-> <<>>, calls |-> <<c>>]
       ELSE [kind |-> "ok", val |-> res.buf, calls |-> <<c>>]

\* h.fingerprint(alg) for an algorithm of the set `algs`
Fingerprint(algs) ==
    \E h \in Handles, alg \in algs :
      \E o \in HashOutcomes(alg.len) :
        /\ Usable(h)
        /\ LET reported == o.reported
               fail == o.fail
               res == fingerprint(records, handles[h].ptr, alg, reported, fail)
           IN last' = [op |-> "fingerprint", h |-> h, alg |-> alg,
                       reported |-> reported, kind |-> res.kind, val |-> res.val,
                       calls |-> res.calls]
        /\ hist' = Touch(hist, h)
        /\ UNCHANGED <<handles, records, acq, kpi, rd>>

\* ---------------------------------------------------------- is_time_valid
\* The codes CertVerifyTimeValidity returns: before the validity period,
\* within it, after it.
ValidityCodes == {-1, 0, 1}

\* is_time_valid that reports a non-zero code as an error.
is_time_valid_or_error(ret) ==
    IF ret = 0 THEN [kind |-> "ok", val |-> TRUE]
    ELSE [kind |-> "err", val |-> FALSE]

\* CertContext::is_time_valid, given the code the native check returned
is_time_valid(ret) == [kind |-> "ok", val |-> (ret = 0)]

\* h.is_time_valid()
IsTimeValid ==
    \E h \in Handles, code \in ValidityCodes :
        /\ Usable(h)
        /\ LET res == is_time_valid(code)
           IN last' = [op |-> "is_time_valid", h |-> h, code |-> code,
                       kind |-> res.kind, val |-> res.val]
        /\ hist' = Touch(hist, h)
        /\ UNCHANGED <<handles, records, acq, kpi, rd>>

\* ------------------------------------------------------ DWORD bit flags
\* The operators |, & and ! on flag words
BitOr(a, b) == a \cup b
BitAnd(a, b) == a \cap b
BitNot(a) == BitIndex \ a

\* ------------------------------------------- AcquirePrivateKeyOptions
\* CertContext::private_key
private_key(h) == [cert |-> h, flags |-> DWORD(0)]

\* AcquirePrivateKeyOptions::flag
acq_flag(flags, flag, set) ==
    IF set THEN BitOr(flags, flag) ELSE BitAnd(flags, BitNot(flag))

\* AcquirePrivateKeyOptions::compare_key
compare_key(flags, b) == acq_flag(flags, CRYPT_ACQUIRE_COMPARE_KEY_FLAG, b)

\* AcquirePrivateKeyOptions::silent
acq_silent(flags, b) == acq_flag(flags, CRYPT_ACQUIRE_SILENT_FLAG, b)

\* Key specifications the native lookup returns: AT_KEYEXCHANGE,
\* AT_SIGNATURE for a provider key, CERT_NCRYPT_KEY_SPEC for an NCrypt key.
\* CERT_NCRYPT_KEY_SPEC is 0xFFFFFFFF.
CERT_NCRYPT_KEY_SPEC == BitIndex
KeySpecsReturned == {DWORD(1), DWORD(2), CERT_NCRYPT_KEY_SPEC}

\* Native key handles the lookup hands out.
NativeKeyHandles == {7, 9}

\* What the platform answers to a lookup: no key, or a key handle with its
\* key specification.
AcquireOutcomes ==
    { [found |-> FALSE, handle |-> 0, spec |-> DWORD(0)] }
    \cup { [found |-> TRUE, handle |-> k, spec |-> sp] :
                k \in NativeKeyHandles, sp \in KeySpecsReturned }

\* CryptAcquireCertificatePrivateKey(ctx, flags, null, &handle, &spec,
\* &free).  Whether a key is found (`found`), which handle and which key
\* specification, are the platform's; the caller must free the handle
\* unless a cached one was asked for (CRYPT_ACQUIRE_CACHE_FLAG 0x1,
\* CRYPT_ACQUIRE_USE_PROV_INFO_FLAG 0x2).
CryptAcquireCertificatePrivateKey(r, flags, found, handle, spec) ==
    IF found
    THEN [res |-> TRUE, handle |-> handle, spec |-> spec,
          free |-> BitAnd(flags, DWORD(3)) = DWORD(0)]
    ELSE [res |-> FALSE, handle |-> 0, spec |-> DWORD(0), free |-> FALSE]

\* acquire that asks for the handle cached on the certificate
\* (CRYPT_ACQUIRE_CACHE_FLAG) instead of allowing a CNG key.
acquire_flags_cached(selfFlags) == BitOr(selfFlags, DWORD(1))

\* acquire: `let flags = self.flags | CRYPT_ACQUIRE_ALLOW_NCRYPT_KEY_FLAG`
acquire_flags(selfFlags) ==
    BitOr(selfFlags, CRYPT_ACQUIRE_ALLOW_NCRYPT_KEY_FLAG)

\* acquire that hands the builder's flags to the lookup as they are.
acquire_with_own_flags(selfFlags, r, found, handle, spec) ==
    LET flags == selfFlags
        n == CryptAcquireCertificatePrivateKey(r, flags, found, handle, spec)
        out == [kind |-> "err", variant |-> "none", handle |-> 0,
                nativeFlags |-> flags, nativeCalls |-> 1,
                calls |-> << NativeCall("CryptAcquireCertificatePrivateKey",
                                        n.res) >>]
    IN IF ~n.res THEN out
       ELSE IF ~n.free THEN [out EXCEPT !.kind = "panic"]
       ELSE IF BitAnd(n.spec, CERT_NCRYPT_KEY_SPEC) # DWORD(0)
            THEN [out EXCEPT !.kind = "ok", !.variant = "NcryptKey",
                             !.handle = n.handle]
            ELSE [out EXCEPT !.kind = "ok", !.variant = "CryptProv",
                             !.handle = n.handle]

\* AcquirePrivateKeyOptions::acquire
acquire(selfFlags, r, found, handle, spec) ==
    LET flags == acquire_flags(selfFlags)
        n == CryptAcquireCertificatePrivateKey(r, flags, found, handle, spec)
        out == [kind |-> "err", variant |-> "none", handle |-> 0,
                nativeFlags |-> flags, nativeCalls |-> 1,
                calls |-> << NativeCall("CryptAcquireCertificatePrivateKey",
                                        n.res) >>]
    IN IF ~n.res THEN out
       ELSE IF ~n.free THEN [out EXCEPT !.kind = "panic"]
       ELSE IF BitAnd(n.spec, CERT_NCRYPT_KEY_SPEC) # DWORD(0)
            THEN [out EXCEPT !.kind = "ok", !.variant = "NcryptKey",
                             !.handle = n.handle]
            ELSE [out EXCEPT !.kind = "ok", !.variant = "CryptProv",
                             !.handle = n.handle]

\* acquire that takes the builder by value.
acquire_consumes_self(bs, b) == [bs EXCEPT ![b].state = "dropped"]

\* acquire(&self): the builder is borrowed for the call and stays usable.
acquire_self(bs, b) == bs

NoAcq == [state |-> "unused", cert |-> 0, flags |-> DWORD(0),
          compare |-> FALSE, silent |-> FALSE]

UnusedAcq == { b \in Builders : acq[b].state = "unused" }
LiveAcq(b) == acq[b].state = "live"

\* let b = h.private_key() for a handle of the set `hs`
PrivateKey(hs) ==
    \E h \in hs :
        /\ Usable(h)
        /\ UnusedAcq # {}
        /\ LET b == Min(UnusedAcq)
               o == private_key(h)
           IN /\ acq' = [acq EXCEPT ![b] = [state |-> "live", cert |-> o.cert,
                                            flags |-> o.flags,
                                            compare |-> FALSE, silent |-> FALSE]]
              /\ last' = [op |-> "private_key", h |-> h, b |-> b]
        /\ hist' = Touch(hist, h)
        /\ UNCHANGED <<handles, records, kpi, rd>>

\* b.compare_key(v); the builder remembers the value last passed (observer)
CompareKey ==
    \E b \in Builders, v \in BOOLEAN :
        /\ LiveAcq(b)
        /\ acq' = [acq EXCEPT ![b].flags = compare_key(@, v), ![b].compare = v]
        /\ last' = [op |-> "compare_key", b |-> b, input |-> v]
        /\ UNCHANGED <<handles, records, hist, kpi, rd>>

\* b.silent(v)
AcqSilent ==
    \E b \in Builders, v \in BOOLEAN :
        /\ LiveAcq(b)
        /\ acq' = [acq EXCEPT ![b].flags = acq_silent(@, v), ![b].silent = v]
        /\ last' = [op |-> "silent", b |-> b, input |-> v]
        /\ UNCHANGED <<handles, records, hist, kpi, rd>>

\* b.acquire(); `again` observes that the call before this one was an
\* acquire on the same builder
Acquire ==
    \E b \in Builders, o \in AcquireOutcomes :
        /\ LiveAcq(b)
        /\ LET h == acq[b].cert
               found == o.found
               handle == o.handle
               spec == o.spec
               res == acquire(acq[b].flags, handles[h].ptr, found, handle, spec)
           IN /\ last' = [op |-> "acquire", b |-> b, h |-> h,
                          flagsBefore |-> acq[b].flags,
                          nativeFlags |-> res.nativeFlags,
                          nativeCalls |-> res.nativeCalls,
                          found |-> found,
                          spec |-> spec,
                          returned |-> handle,
                          calls |-> res.calls,
                          again |-> (last.op = "acquire" /\ last.b = b),
                          kind |-> res.kind, variant |-> res.variant,
                          handle |-> res.handle]
              /\ hist' = Touch(hist, h)
        /\ acq' = acquire_self(acq, b)
        /\ UNCHANGED <<handles, records, kpi, rd>>

\* b goes out of scope
AcqDrop ==
    \E b \in Builders :
        /\ LiveAcq(b)
        /\ acq' = [acq EXCEPT ![b].state = "dropped"]
        /\ last' = [op |-> "drop_builder", b |-> b]
        /\ UNCHANGED <<handles, records, hist, kpi, rd>>

\* ------------------------------------------------------- SetKeyProvInfo
\* winapi flag bits of CRYPT_KEY_PROV_INFO.dwFlags
CERT_SET_KEY_PROV_HANDLE_PROP_ID == DWORD(1)
CRYPT_MACHINE_KEYSET == DWORD(32)
CRYPT_SILENT == DWORD(64)
\* winapi key specifications
AT_KEYEXCHANGE == DWORD(1)
AT_SIGNATURE == DWORD(2)

\* Option<Vec<u16>>
None == [some |-> FALSE, v |-> <<>>]
Some(v) == [some |-> TRUE, v |-> v]

\* CertContext::set_key_prov_info
set_key_prov_info(h) ==
    [cert |-> h, container |-> None, provider |-> None,
     type_ |-> 0, flags |-> DWORD(0), key_spec |-> DWORD(0)]

\* SetKeyProvInfo::container
container(name) == Some(encode_utf16(name) \o <<0>>)

\* SetKeyProvInfo::provider
provider(name) == Some(encode_utf16(name) \o <<0>>)

\* flag that assigns the word instead of changing one bit of it.
kpi_flag_assign(flags, flag, on) ==
    IF on THEN flag ELSE DWORD(0)

\* SetKeyProvInfo::flag
kpi_flag(flags, flag, on) ==
    IF on THEN BitOr(flags, flag) ELSE BitAnd(flags, BitNot(flag))

\* SetKeyProvInfo::keep_open
keep_open(flags, b) == kpi_flag(flags, CERT_SET_KEY_PROV_HANDLE_PROP_ID, b)

\* SetKeyProvInfo::machine_keyset
machine_keyset(flags, b) == kpi_flag(flags, CRYPT_MACHINE_KEYSET, b)

\* SetKeyProvInfo::silent
kpi_silent(flags, b) == kpi_flag(flags, CRYPT_SILENT, b)

\* KeySpec::key_exchange, KeySpec::signature
KeySpecs == {AT_KEYEXCHANGE, AT_SIGNATURE}

\* Names given to container() / provider(), raw codes of the ProviderType
\* values given to type_() (PROV_RSA_FULL, PROV_RSA_AES).
ContainerInputs == { <<107>>, <<>> }
ProviderInputs == { <<112>> }
ProviderTypes == {1, 24}

\* A pointer to a wide string: null, or the units up to the terminator.
NullPtr == [null |-> TRUE, str |-> <<>>]
PtrTo(w) == [null |-> FALSE, str |-> SubSeq(w, 1, Len(w) - 1)]

\* CertSetCertificateContextProperty(ctx, CERT_KEY_PROV_INFO_PROP_ID, 0,
\* &CRYPT_KEY_PROV_INFO): the record keeps a copy of the structure when
\* the platform accepts the write.
CertSetKeyProvInfoProperty(recs, r, info, ret) ==
    IF ret
    THEN [ret |-> TRUE,
          recs |-> [recs EXCEPT ![r].keyprov = [present |-> TRUE, info |-> info]]]
    ELSE [ret |-> FALSE, recs |-> recs]

\* set that hands the platform an empty name where none was given.
kpi_set_empty_for_unset(recs, r, self, ret) ==
    LET info == [pwszContainerName |-> IF self.container.some
                                       THEN PtrTo(self.container.v)
                                       ELSE PtrTo(<<0>>),
                 pwszProvName |-> IF self.provider.some
                                  THEN PtrTo(self.provider.v)
                                  ELSE PtrTo(<<0>>),
                 dwProvType |-> self.type_,
                 dwFlags |-> self.flags,
                 cProvParam |-> 0,
                 rgProvParam |-> NULL,
                 dwKeySpec |-> self.key_spec]
        w == CertSetKeyProvInfoProperty(recs, r, info, ret)
    IN [kind |-> IF w.ret THEN "ok" ELSE "err", recs |-> w.recs, info |-> info,
        calls |-> << NativeCall("CertSetCertificateContextProperty", w.ret) >>]

\* SetKeyProvInfo::set
kpi_set(recs, r, self, ret) ==
    LET info == [pwszContainerName |-> IF self.container.some
                                       THEN PtrTo(self.container.v) ELSE NullPtr,
                 pwszProvName |-> IF self.provider.some
                                  THEN PtrTo(self.provider.v) ELSE NullPtr,
                 dwProvType |-> self.type_,
                 dwFlags |-> self.flags,
                 cProvParam |-> 0,
                 rgProvParam |-> NULL,
                 dwKeySpec |-> self.key_spec]
        w == CertSetKeyProvInfoProperty(recs, r, info, ret)
    IN [kind |-> IF w.ret THEN "ok" ELSE "err", recs |-> w.recs, info |-> info,
        calls |-> << NativeCall("CertSetCertificateContextProperty", w.ret) >>]

\* `containerIn`, `providerIn`, `keepOpen`, `machineKeyset` and `silent` are
\* observers: the values last passed to the setters.
NoKpi == [state |-> "unused", cert |-> 0, container |-> None, provider |-> None,
          type_ |-> 0, flags |-> DWORD(0), key_spec |-> DWORD(0),
          containerIn |-> None, providerIn |-> None,
          keepOpen |-> FALSE, machineKeyset |-> FALSE, silent |-> FALSE]

UnusedKpi == { b \in Builders : kpi[b].state = "unused" }
LiveKpi(b) == kpi[b].state = "live"

\* The builder's fields as the code holds them.
KpiSelf(b) == [cert |-> kpi[b].cert, container |-> kpi[b].container,
               provider |-> kpi[b].provider, type_ |-> kpi[b].type_,
               flags |-> kpi[b].flags, key_spec |-> kpi[b].key_spec]

\* let b = h.set_key_prov_info() for a handle of the set `hs`
SetKeyProvInfo(hs) ==
    \E h \in hs :
        /\ Usable(h)
        /\ UnusedKpi # {}
        /\ LET b == Min(UnusedKpi)
               o == set_key_prov_info(h)
           IN /\ kpi' = [kpi EXCEPT ![b] =
                            [NoKpi EXCEPT !.state = "live", !.cert = o.cert,
                                          !.container = o.container,
                                          !.provider = o.provider,
                                          !.type_ = o.type_, !.flags = o.flags,
                                          !.key_spec = o.key_spec]]
              /\ last' = [op |-> "set_key_prov_info", h |-> h, b |-> b]
        /\ hist' = Touch(hist, h)
        /\ UNCHANGED <<handles, records, acq, rd>>

\* b.container(name)
KpiContainer ==
    \E b \in Builders, name \in ContainerInputs :
        /\ LiveKpi(b)
        /\ kpi' = [kpi EXCEPT ![b].container = container(name),
                              ![b].containerIn = Some(name)]
        /\ last' = [op |-> "container", b |-> b, input |-> name]
        /\ UNCHANGED <<handles, records, hist, acq, rd>>

\* b.provider(name)
KpiProvider ==
    \E b \in Builders, name \in ProviderInputs :
        /\ LiveKpi(b)
        /\ kpi' = [kpi EXCEPT ![b].provider = provider(name),
                              ![b].providerIn = Some(name)]
        /\ last' = [op |-> "provider", b |-> b, input |-> name]
        /\ UNCHANGED <<handles, records, hist, acq, rd>>

\* b.type_(t)
KpiType ==
    \E b \in Builders, t \in ProviderTypes :
        /\ LiveKpi(b)
        /\ kpi' = [kpi EXCEPT ![b].type_ = t]
        /\ last' = [op |-> "type_", b |-> b, input |-> t]
        /\ UNCHANGED <<handles, records, hist, acq, rd>>

\* b.keep_open(v)
KpiKeepOpen ==
    \E b \in Builders, v \in BOOLEAN :
        /\ LiveKpi(b)
        /\ kpi' = [kpi EXCEPT ![b].flags = keep_open(@, v), ![b].keepOpen = v]
        /\ last' = [op |-> "keep_open", b |-> b, input |-> v]
        /\ UNCHANGED <<handles, records, hist, acq, rd>>

\* b.machine_keyset(v)
KpiMachineKeyset ==
    \E b \in Builders, v \in BOOLEAN :
        /\ LiveKpi(b)
        /\ kpi' = [kpi EXCEPT ![b].flags = machine_keyset(@, v),
                              ![b].machineKeyset = v]
        /\ last' = [op |-> "machine_keyset", b |-> b, input |-> v]
        /\ UNCHANGED <<handles, records, hist, acq, rd>>

\* b.silent(v)
KpiSilent ==
    \E b \in Builders, v \in BOOLEAN :
        /\ LiveKpi(b)
        /\ kpi' = [kpi EXCEPT ![b].flags = kpi_silent(@, v), ![b].silent = v]
        /\ last' = [op |-> "kpi_silent", b |-> b, input |-> v]
        /\ UNCHANGED <<handles, records, hist, acq, rd>>

\* b.key_spec(k)
KpiKeySpec ==
    \E b \in Builders, k \in KeySpecs :
        /\ LiveKpi(b)
        /\ kpi' = [kpi EXCEPT ![b].key_spec = k]
        /\ last' = [op |-> "key_spec", b |-> b, input |-> k]
        /\ UNCHANGED <<handles, records, hist, acq, rd>>

\* b.set()
KpiSet ==
    \E b \in Builders, ret \in BOOLEAN :
        /\ LiveKpi(b)
        /\ LET h == kpi[b].cert
               res == kpi_set(records, handles[h].ptr, KpiSelf(b), ret)
           IN /\ records' = res.recs
              /\ last' = [op |-> "kpi_set", b |-> b, h |-> h, kind |-> res.kind,
                          info |-> res.info, before |-> kpi[b],
                          calls |-> res.calls]
              /\ hist' = Touch(hist, h)
        /\ UNCHANGED <<handles, acq, kpi, rd>>

\* b goes out of scope
KpiDrop ==
    \E b \in Builders :
        /\ LiveKpi(b)
        /\ kpi' = [kpi EXCEPT ![b].state = "dropped"]
        /\ last' = [op |-> "drop_kpi", b |-> b]
        /\ UNCHANGED <<handles, records, hist, acq, rd>>

\* ---------------------------------------------------------------- Init
Init ==
    /\ handles = [h \in Handles |-> NoHandle]
    /\ records = [r \in Records |-> NoRecord]
    /\ hist = [h \in Handles |-> NoHist]
    /\ acq = [b \in Builders |-> NoAcq]
    /\ kpi = [b \in Builders |-> NoKpi]
    /\ last = [op |-> "none"]
    /\ rd = NoRead

\* -------------------------------------------------------- specifications
\* Handle lifetime: decode, clone, drop, delete.
NextLife == New(DerInputs) \/ FromPem(PemInputs) \/ Clone \/ Drop \/ Delete

SpecLife == Init /\ [][NextLife]_vars

\* Handles in use: the lifetime operations next to a property read and a
\* builder that borrows a handle and makes its terminal call.
NextUse ==
    \/ New(DerInputs) \/ Clone \/ Drop \/ Delete
    \/ FriendlyName \/ PrivateKey(Handles) \/ Acquire \/ AcqDrop

SpecUse == Init /\ [][NextUse]_vars

\* Shared content: properties read and written through clones, equality.
NextProps ==
    \/ New(DerInputs) \/ Clone \/ Drop
    \/ SetFriendlyName(NameInputs) \/ FriendlyName

SpecProps == Init /\ [][NextProps]_vars

\* Equality of handles under property writes (of the name "A").
NextEq ==
    \/ New(DerInputs) \/ Clone \/ Eq
    \/ SetFriendlyName({ <<65>> }) \/ SetKeyProvInfo(Handles) \/ KpiSet

SpecEq == Init /\ [][NextEq]_vars

\* Decoding from DER and from text, fingerprints, time validity.
NextDecode ==
    \/ New(DerInputs) \/ FromPem(PemInputs) \/ Eq
    \/ Fingerprint(HashAlgorithms) \/ IsTimeValid

SpecDecode == Init /\ [][NextDecode]_vars

\* Private key lookup through the acquisition builder.
NextAcquire ==
    \/ New(DerInputs)
    \/ PrivateKey(Handles) \/ CompareKey \/ AcqSilent \/ Acquire \/ AcqDrop

SpecAcquire == Init /\ [][NextAcquire]_vars

\* The provider-info builder on the handle created first, a well-formed
\* certificate: configuration and set.
NextKpi ==
    \/ New({ <<48, 130>> }) \/ SetKeyProvInfo({1}) \/ KpiContainer \/ KpiKeySpec
    \/ KpiKeepOpen \/ KpiSet \/ KpiDrop

SpecKpi == Init /\ [][NextKpi]_vars

\* The flag setters of both builders on the first handle.
NextFlags ==
    \/ New({ <<48, 130>> }) \/ PrivateKey({1}) \/ CompareKey \/ AcqSilent
    \/ SetKeyProvInfo({1}) \/ KpiType
    \/ KpiKeepOpen \/ KpiMachineKeyset \/ KpiSilent

SpecFlags == Init /\ [][NextFlags]_vars

\* Variable-length reads: from_pem and the four property getters, on
\* properties that another holder of the context wrote.
NextRead ==
    \/ FromPem(PemInputs) \/ StoreWrites(PropIds) \/ FriendlyName
    \/ SignHashAlgorithms \/ SignatureHash \/ Description

SpecRead == Init /\ [][NextRead]_vars

\* Every fallible operation with the platform failing or not: new on a
\* well-formed and on an empty encoding, from_pem on the text of a rejected
\* encoding and on a text that is no PEM block.
NextErrors ==
    \/ New({ <<48, 130>>, <<>> })
    \/ FromPem({ PemOf(<<255>>), <<77, 73, 73, 61>> })
    \/ Fingerprint({sha1}) \/ StoreWrites({"DESCRIPTION"})
    \/ FriendlyName \/ Description \/ SetFriendlyName({ <<65>> }) \/ Delete
    \/ PrivateKey({1}) \/ Acquire \/ SetKeyProvInfo({1}) \/ KpiSet

SpecErrors == Init /\ [][NextErrors]_vars

\* Two threads on clones of one certificate: one reads the friendly name,
\* the other writes it.
NextRace ==
    \/ New({ <<48, 130>> }) \/ Clone
    \/ SetFriendlyNameMt \/ ReadBegin \/ ReadEnd

SpecRace == Init /\ [][NextRace]_vars


\* ----------------------------------------------------------------- claims
\* C1: every live CertContext owns exactly one reference to its native
\* record: on every record the reference count equals the number of live
\* handles pointing to it (so it is zero exactly when the last handle is
\* gone), a live handle has released nothing, and a dropped or deleted
\* handle has released its reference exactly once.
C1_RefsEqualLiveHandles ==
    /\ \A r \in Records : records[r].refs = Cardinality(LiveOn(r))
    /\ \A h \in Handles :
          /\ hist[h].released <= 1
          /\ handles[h].state = "live" => hist[h].released = 0
          /\ handles[h].state \in {"dropped", "deleted"} => hist[h].released = 1

\* A record decoded, cloned, then left by one handle through drop and by the
\* other through delete: its count is back to zero.
C1_Witness ==
    \E r \in Records, h1 \in Handles, h2 \in Handles :
        /\ records[r].alloc /\ records[r].refs = 0
        /\ handles[h1].ptr = r /\ handles[h1].state = "dropped"
        /\ handles[h2].ptr = r /\ handles[h2].state = "deleted"

\* C2: delete() releases exactly one reference of its handle, whether the
\* native removal succeeded or failed: right after a delete the handle has
\* released once, the record's count is one less than before the call, and
\* the handle is gone.
C2_DeleteReleasesOnce ==
    last.op = "delete" =>
        /\ hist[last.h].released = 1
        /\ records[handles[last.h].ptr].refs = last.refsBefore - 1
        /\ handles[last.h].state = "deleted"

\* A delete whose native removal failed, on a record another handle shares.
C2_Witness ==
    /\ last.op = "delete" /\ last.kind = "err"
    /\ last.refsBefore = 2
    /\ records[handles[last.h].ptr].refs = 1

\* C3: delete() consumes the handle: no handle is deleted twice, no
\* operation (the implicit drop included) is issued on a handle after its
\* delete, and a deleted handle is no longer usable.
C3_DeleteConsumes ==
    \A h \in Handles :
        /\ hist[h].deletes <= 1
        /\ hist[h].opsAfterDelete = 0
        /\ hist[h].deletes = 1 => handles[h].state = "deleted" /\ ~Usable(h)

\* After the delete of one handle the program goes on reading through
\* another one.
C3_Witness ==
    \E h \in Handles :
        /\ hist[h].deletes = 1
        /\ last.op = "friendly_name" /\ last.h # h

\* The family of a handle: the decoded handle it was cloned from.
FamilyOf(h) == hist[h].family

\* C4: clones observe the same content: once a friendly name was written
\* with success through any handle of a family, reading it through every
\* live handle of the family yields that name (unless the platform fails
\* the read), whichever handle wrote it and however many clones there are.
C4_ClonesShareContent ==
    /\ \A h \in Handles :
          Usable(h) /\ hist[FamilyOf(h)].nameSet =>
              LET res == friendly_name(records, handles[h].ptr, FALSE, FALSE)
              IN res.kind = "ok" /\ res.val = hist[FamilyOf(h)].name
    /\ (last.op = "friendly_name" /\ ~last.platformFailed
        /\ hist[FamilyOf(last.h)].nameSet) =>
           last.kind = "ok" /\ last.val = hist[FamilyOf(last.h)].name

\* A name written through one handle is read through another handle of the
\* same family.
C4_Witness ==
    /\ last.op = "friendly_name" /\ last.kind = "ok"
    /\ hist[FamilyOf(last.h)].nameSet
    /\ hist[FamilyOf(last.h)].nameBy # last.h
    /\ last.val = <<128512, 66>>

\* C5: a friendly name written with success is stored as its UTF-16 units
\* plus one terminator, with byte length 2 * (units + 1), and a successful
\* read returns exactly the text last written, the empty text included.
C5_FriendlyNameRoundTrip ==
    /\ \A h \in Handles :
          Usable(h) /\ hist[FamilyOf(h)].nameSet =>
              LET p == records[handles[h].ptr].props["FRIENDLY_NAME"]
                  u == encode_utf16(hist[FamilyOf(h)].name)
              IN /\ p.present
                 /\ p.data = u \o <<0>>
                 /\ p.cb = 2 * (Len(u) + 1)
    /\ (last.op = "friendly_name" /\ last.kind = "ok") =>
           /\ hist[FamilyOf(last.h)].nameSet
           /\ last.val = hist[FamilyOf(last.h)].name
    /\ (last.op = "friendly_name" /\ hist[FamilyOf(last.h)].nameSet) =>
           last.kind # "panic"

\* The empty name was written and read back as the empty text.
C5_Witness ==
    /\ last.op = "friendly_name" /\ last.kind = "ok"
    /\ hist[FamilyOf(last.h)].nameSet
    /\ hist[FamilyOf(last.h)].name = <<>>
    /\ last.val = <<>>

\* C6: two handles are equal iff the DER bytes they were decoded from are
\* identical; a handle's encoded bytes stay the bytes it was decoded from,
\* whatever properties are written, and pointer identity plays no part.
C6_EqualityIsDerEquality ==
    /\ \A h \in Handles :
          Usable(h) => get_encoded_bytes(records, handles[h].ptr) = hist[h].decodedFrom
    /\ \A h1 \in Handles, h2 \in Handles :
          Usable(h1) /\ Usable(h2) =>
              (eq(records, handles[h1].ptr, handles[h2].ptr)
                  <=> hist[h1].decodedFrom = hist[h2].decodedFrom)
    /\ last.op = "eq" =>
          (last.val <=> hist[last.h].decodedFrom = hist[last.h2].decodedFrom)

\* Two handles decoded independently from the same bytes compare equal
\* although a friendly name and a key provider info were written on one of
\* the two records only.
C6_Witness ==
    /\ last.op = "eq" /\ last.val
    /\ handles[last.h].ptr # handles[last.h2].ptr
    /\ records[handles[last.h].ptr].props["FRIENDLY_NAME"].present
    /\ records[handles[last.h].ptr].keyprov.present
    /\ ~records[handles[last.h2].ptr].props["FRIENDLY_NAME"].present
    /\ ~records[handles[last.h2].ptr].keyprov.present

\* The certificate a handle was loaded from: the DER bytes given to new(),
\* or the DER input whose PEM-style text was given to from_pem().
HasDerOf(h) ==
    \/ hist[h].srcKind = "der"
    \/ hist[h].srcKind = "pem" /\ \E d \in DerInputs : PemOf(d) = hist[h].src
DerOf(h) ==
    IF hist[h].srcKind = "der" THEN hist[h].src
    ELSE CHOOSE d \in DerInputs : PemOf(d) = hist[h].src

\* C7: decoding the PEM-style text of d is equivalent to decoding d: unless
\* the platform fails a text decoding call of its own accord,
\* from_pem(text of d) succeeds exactly when the native decoder accepts d, a
\* handle loaded from d and one loaded from the text of d compare equal, and
\* a fingerprint the platform computed in full is the digest of d under the
\* algorithm asked for, whichever way the handle was loaded.
C7_PemEquivalentToDer ==
    /\ last.op = "from_pem" =>
          \A d \in DerInputs :
              (last.input = PemOf(d) /\ ~last.platformFailed)
                  => (last.kind = "ok" <=> IsValidCert(d))
    /\ \A h1 \in Handles, h2 \in Handles :
          (/\ Usable(h1) /\ Usable(h2)
           /\ hist[h1].srcKind = "der" /\ hist[h2].srcKind = "pem"
           /\ hist[h2].src = PemOf(hist[h1].src)) =>
              /\ eq(records, handles[h1].ptr, handles[h2].ptr)
              /\ \A alg \in HashAlgorithms :
                    fingerprint(records, handles[h1].ptr, alg, alg.len, FALSE)
                    = fingerprint(records, handles[h2].ptr, alg, alg.len, FALSE)
    /\ (/\ last.op = "fingerprint" /\ last.kind = "ok"
        /\ last.reported = last.alg.len /\ HasDerOf(last.h)) =>
           last.val = Digest(last.alg.id, DerOf(last.h))
    /\ (last.op = "eq" /\ HasDerOf(last.h) /\ HasDerOf(last.h2)) =>
           (last.val <=> DerOf(last.h) = DerOf(last.h2))

\* A handle loaded from DER and one loaded from the text of the same
\* certificate were compared.
C7_Witness ==
    /\ last.op = "eq" /\ last.val
    /\ hist[last.h].srcKind = "der" /\ hist[last.h2].srcKind = "pem"
    /\ hist[last.h2].src = PemOf(hist[last.h].src)
    /\ Len(hist[last.h].src) = 4

\* C8: a successful fingerprint(alg) returns exactly as many bytes as the
\* algorithm's digest length (16, 20, 32, 48, 64 for md5, sha1, sha256,
\* sha384, sha512), whatever length the native call reported back.
C8_FingerprintLength ==
    (last.op = "fingerprint" /\ last.kind = "ok") =>
        /\ Len(last.val) = last.alg.len
        /\ Len(last.val) = NativeDigestLen(last.alg.id)
        /\ Len(last.val) \in {16, 20, 32, 48, 64}

\* A sha384 fingerprint for which the platform reported fewer than 48 bytes.
C8_Witness ==
    /\ last.op = "fingerprint" /\ last.kind = "ok"
    /\ last.alg = sha384
    /\ last.reported < 48
    /\ Len(last.val) = 48

\* C9: is_time_valid() never returns an error: it returns Ok(true) iff the
\* native validity code is zero, Ok(false) for every other code, and the
\* call changes neither handles, records nor builders.
C9_IsTimeValidNeverFails ==
    /\ [](last.op = "is_time_valid" =>
            last.kind = "ok" /\ (last.val <=> last.code = 0))
    /\ [][last'.op = "is_time_valid" =>
            UNCHANGED <<handles, records, hist, acq, kpi>>]_vars

\* The native check returned a non-zero code and the call returned Ok(false).
C9_Witness ==
    /\ last.op = "is_time_valid" /\ last.code = 1
    /\ last.kind = "ok" /\ last.val = FALSE

\* The flags a builder was configured with: the bit of each toggle whose
\* last call passed true.
ConfiguredFlags(b) ==
    (IF acq[b].compare THEN CRYPT_ACQUIRE_COMPARE_KEY_FLAG ELSE DWORD(0))
    \cup (IF acq[b].silent THEN CRYPT_ACQUIRE_SILENT_FLAG ELSE DWORD(0))

\* C10: every acquire() hands the native lookup exactly the configured flags
\* plus allow-NCrypt-key: the allow bit is always present whatever toggles
\* were called, and acquire leaves the builder's stored flags as they were.
C10_AcquireForcesAllowNcrypt ==
    /\ \A b \in Builders : LiveAcq(b) => acq[b].flags = ConfiguredFlags(b)
    /\ last.op = "acquire" =>
          /\ last.nativeFlags =
                 ConfiguredFlags(last.b) \cup CRYPT_ACQUIRE_ALLOW_NCRYPT_KEY_FLAG
          /\ CRYPT_ACQUIRE_ALLOW_NCRYPT_KEY_FLAG \subseteq last.nativeFlags
          /\ acq[last.b].flags = last.flagsBefore
          /\ last.nativeCalls = 1

\* An acquire on a builder configured with compare_key(true) and
\* silent(false): the lookup got compare-key and allow-NCrypt-key.
C10_Witness ==
    /\ last.op = "acquire"
    /\ acq[last.b].compare /\ ~acq[last.b].silent
    /\ last.nativeFlags = DWORD(65536 + 4)

\* C11: a successful acquire yields exactly one PrivateKey variant, chosen
\* only by the key specification the platform returned: NcryptKey iff the
\* specification is the next-generation one (CERT_NCRYPT_KEY_SPEC),
\* CryptProv for the legacy-provider specifications (AT_KEYEXCHANGE,
\* AT_SIGNATURE), wrapping the handle the platform returned unchanged.
C11_VariantFollowsKeySpec ==
    (last.op = "acquire" /\ last.kind = "ok") =>
        /\ last.variant \in {"NcryptKey", "CryptProv"}
        /\ last.variant = "NcryptKey" <=> last.spec = CERT_NCRYPT_KEY_SPEC
        /\ last.spec \in {AT_KEYEXCHANGE, AT_SIGNATURE}
               => last.variant = "CryptProv"
        /\ last.handle = last.returned

\* C12 (as stated): a request is consumed by a single acquire: at most one
\* acquire is ever executed on a request, so no acquire on a request follows
\* an earlier acquire on that request, and each acquire executes the native
\* lookup exactly once.
C12_AcquireConsumesRequest ==
    last.op = "acquire" => (~last.again /\ last.nativeCalls = 1)

\* C12 (amended): acquire borrows the request and leaves it live and
\* unchanged, so it may run again on the same request; every acquire, a
\* repeated one included, executes the native lookup exactly once and
\* returns what that lookup answered.
C12_AcquireReusable ==
    last.op = "acquire" =>
        /\ LiveAcq(last.b)
        /\ acq[last.b].flags = last.flagsBefore
        /\ last.nativeCalls = 1
        /\ last.kind = "ok" => (last.found /\ last.handle = last.returned)
        /\ last.kind = "err" <=> ~last.found

C12_Witness ==
    last.op = "acquire" /\ last.again /\ last.kind = "ok"

\* The dwFlags word made of the values last passed to the flag setters.
KpiConfiguredFlags(k) ==
    BitOr(BitOr(IF k.keepOpen THEN CERT_SET_KEY_PROV_HANDLE_PROP_ID ELSE DWORD(0),
                IF k.machineKeyset THEN CRYPT_MACHINE_KEYSET ELSE DWORD(0)),
          IF k.silent THEN CRYPT_SILENT ELSE DWORD(0))

\* The name the platform reads behind a pointer for the value last passed
\* to a name setter.
KpiConfiguredName(o) ==
    IF o.some THEN [null |-> FALSE, str |-> encode_utf16(o.v)] ELSE NullPtr

\* C13: set() neither consumes nor alters the builder: after a successful
\* or a failed set the builder is live with every field as before the call,
\* and the structure handed to the platform is the configuration current at
\* that call: the last value of each setter, a null pointer for a container
\* or provider never set, 0 for a type or key spec never set, no extra
\* parameters.  A successful set stores that structure, a failed one leaves
\* every record as it was; so set may run again on the same builder.
C13_SetKeepsBuilder ==
    /\ [](last.op = "kpi_set" =>
            LET k == kpi[last.b]
                i == last.info
            IN /\ LiveKpi(last.b)
               /\ k = last.before
               /\ i.pwszContainerName = KpiConfiguredName(k.containerIn)
               /\ i.pwszProvName = KpiConfiguredName(k.providerIn)
               /\ i.dwProvType = k.type_
               /\ i.dwFlags = KpiConfiguredFlags(k)
               /\ i.dwKeySpec = k.key_spec
               /\ i.cProvParam = 0 /\ i.rgProvParam = NULL
               /\ last.kind \in {"ok", "err"}
               /\ last.kind = "ok" =>
                      records[handles[last.h].ptr].keyprov
                          = [present |-> TRUE, info |-> i])
    /\ [][last'.op = "kpi_set" =>
              /\ kpi' = kpi
              /\ last'.before = kpi[last'.b]
              /\ last'.kind = "err" => records' = records]_vars

\* A failed set on a record that holds the structure of an earlier
\* successful set, the builder reconfigured in between with a container
\* name and the provider still unset.
C13_Witness ==
    /\ last.op = "kpi_set" /\ last.kind = "err"
    /\ records[handles[last.h].ptr].keyprov.present
    /\ records[handles[last.h].ptr].keyprov.info # last.info
    /\ last.info.pwszProvName.null
    /\ ~last.info.pwszContainerName.null

\* C14: the flag setters of both builders are idempotent and last call
\* wins: a flag bit is set iff the most recent call of its setter passed
\* true (clear when the setter was never called); a call sets its bit to
\* the value passed and changes no other bit, no other field of the
\* builder, no other builder and nothing outside the builders; a call that
\* repeats the value of the call before it changes nothing.
C14_TogglesLastCallWins ==
    /\ [](/\ \A b \in Builders :
                LiveAcq(b) => acq[b].flags = ConfiguredFlags(b)
          /\ \A b \in Builders :
                LiveKpi(b) => kpi[b].flags = KpiConfiguredFlags(kpi[b]))
    /\ [][/\ last'.op \in {"compare_key", "silent"} =>
                LET b == last'.b
                    bit == IF last'.op = "compare_key"
                           THEN CRYPT_ACQUIRE_COMPARE_KEY_FLAG
                           ELSE CRYPT_ACQUIRE_SILENT_FLAG
                IN /\ BitAnd(acq'[b].flags, bit)
                          = (IF last'.input THEN bit ELSE DWORD(0))
                   /\ BitAnd(acq'[b].flags, BitNot(bit))
                          = BitAnd(acq[b].flags, BitNot(bit))
                   /\ acq'[b].state = acq[b].state
                   /\ acq'[b].cert = acq[b].cert
                   /\ \A c \in Builders \ {b} : acq'[c] = acq[c]
                   /\ UNCHANGED <<handles, records, kpi>>
                   /\ (last.op = last'.op /\ last.b = b
                         /\ last.input = last'.input) => acq' = acq
           /\ last'.op \in {"keep_open", "machine_keyset", "kpi_silent"} =>
                LET k == last'.b
                    kbit == CASE last'.op = "keep_open"
                                   -> CERT_SET_KEY_PROV_HANDLE_PROP_ID
                              [] last'.op = "machine_keyset"
                                   -> CRYPT_MACHINE_KEYSET
                              [] last'.op = "kpi_silent" -> CRYPT_SILENT
                IN /\ BitAnd(kpi'[k].flags, kbit)
                          = (IF last'.input THEN kbit ELSE DWORD(0))
                   /\ BitAnd(kpi'[k].flags, BitNot(kbit))
                          = BitAnd(kpi[k].flags, BitNot(kbit))
                   /\ kpi'[k].cert = kpi[k].cert
                   /\ kpi'[k].container = kpi[k].container
                   /\ kpi'[k].provider = kpi[k].provider
                   /\ kpi'[k].type_ = kpi[k].type_
                   /\ kpi'[k].key_spec = kpi[k].key_spec
                   /\ kpi'[k].state = kpi[k].state
                   /\ \A c \in Builders \ {k} : kpi'[c] = kpi[c]
                   /\ UNCHANGED <<handles, records, acq>>
                   /\ (last.op = last'.op /\ last.b = k
                         /\ last.input = last'.input) => kpi' = kpi]_vars

\* A provider-info builder with a provider type set, keep_open and silent
\* last passed true and machine_keyset last passed false after it had been
\* set, next to an acquisition builder with compare_key last passed true.
C14_Witness ==
    /\ last.op = "machine_keyset" /\ ~last.input
    /\ kpi[last.b].flags = BitOr(CERT_SET_KEY_PROV_HANDLE_PROP_ID, CRYPT_SILENT)
    /\ kpi[last.b].type_ # 0
    /\ \E a \in Builders :
          LiveAcq(a) /\ acq[a].flags = CRYPT_ACQUIRE_COMPARE_KEY_FLAG

\* C16: every variable-length read (get_bytes, get_string, from_pem) follows
\* the two-call protocol in order: first a size query with a null buffer;
\* when it fails the operation returns an error and makes no second call;
\* otherwise exactly one fill call is made, with a buffer of exactly the
\* length the size query reported; when the fill call fails the operation
\* returns an error and no value (from_pem creates no handle).
C16_TwoCallProtocol ==
    last.op \in {"from_pem", "friendly_name", "sign_hash_algorithms",
                 "signature_hash", "description"} =>
        LET fn == IF last.op = "from_pem" THEN "CryptStringToBinaryA"
                  ELSE "CertGetCertificateContextProperty"
            IsRead(c) == c.fn = fn
            \* the native reads among the calls made, in order
            reads == SelectSeq(last.calls, IsRead)
        IN /\ Len(reads) \in {1, 2}
           /\ reads[1] = last.calls[1]
           /\ reads[1].null
           /\ ~reads[1].ok => (Len(last.calls) = 1 /\ last.kind = "err")
           /\ reads[1].ok =>
                 /\ Len(reads) = 2
                 /\ reads[2] = last.calls[2]
                 /\ ~reads[2].null
                 /\ reads[2].cap = reads[1].len
                 /\ ~reads[2].ok =>
                       /\ Len(last.calls) = 2
                       /\ last.kind = "err"
                       /\ last.op = "from_pem" => last.h = 0
                       /\ last.op # "from_pem" => last.val = <<>>

\* C17: a wide-string getter halves the byte length to get the count of
\* units, strips exactly one trailing unit (the terminator) and converts
\* the rest: when the rest is well-formed UTF-16 the getter returns its
\* text, and when it is not the getter returns a failure to its caller.
C17_InvalidTextIsAFailure ==
    (/\ last.op \in {"friendly_name", "sign_hash_algorithms"}
     /\ Len(last.calls) = 2 /\ last.calls[2].ok
     /\ last.calls[1].len \div 2 >= 1) =>
        LET amt == last.calls[1].len \div 2
            conv == into_string(SubSeq(last.stored.data, 1, amt - 1))
        IN /\ last.calls[2].cap = 2 * amt
           /\ conv.ok => (last.kind = "ok" /\ last.val = conv.text)
           /\ ~conv.ok => last.kind = "err"

\* C20: a wide-string getter never aborts on the length the platform
\* reports: for every byte length a successful size query returns, 0 and 1
\* included, the range of units to convert is computed without underflow
\* and without slicing out of range, and for the lengths 0 and 1 the getter
\* returns a value or an error.
C20_NoAbortOnReportedLength ==
    (last.op \in {"friendly_name", "sign_hash_algorithms"}
         /\ last.calls[1].ok) =>
        /\ last.panic # "slice"
        /\ last.calls[1].len < 2 => last.kind \in {"ok", "err"}

\* C15: no operation other than is_time_valid swallows a native failure:
\* new, from_pem, fingerprint, the property getters, set_friendly_name,
\* delete, acquire and SetKeyProvInfo::set return an error whenever a native
\* call they make reports failure, and success only when every native call
\* they made succeeded; a failed native call is the last one the operation
\* makes (no retry, no call after it); acquire on a certificate without a
\* private key returns an error and builds no PrivateKey.
C15_NativeFailuresPropagate ==
    last.op \in {"new", "from_pem", "fingerprint", "friendly_name",
                 "sign_hash_algorithms", "signature_hash", "description",
                 "set_friendly_name", "delete", "acquire", "kpi_set"} =>
        /\ Len(last.calls) >= 1
        /\ (\E i \in 1..Len(last.calls) : ~last.calls[i].ok)
              => last.kind = "err"
        /\ last.kind = "ok"
              => \A i \in 1..Len(last.calls) : last.calls[i].ok
        /\ \A i \in 1..(Len(last.calls) - 1) : last.calls[i].ok
        /\ (last.op = "acquire" /\ ~last.found)
              => (last.kind = "err" /\ last.variant = "none")

\* A from_pem whose two decode calls succeeded and whose create call
\* failed, on a state where a handle has been deleted.
C15_Witness ==
    /\ last.op = "from_pem" /\ last.kind = "err"
    /\ Len(last.calls) = 3 /\ ~last.calls[3].ok
    /\ \E h \in Handles : handles[h].state = "deleted"

C19_NoTornRead ==
    last.op = "friendly_name_mt" =>
        \/ last.kind = "err"
        \/ (last.kind = "ok" /\ last.val \in last.seen)

====
